---- MODULE Spec2Model ----
\* Verification model of the two programs of the repository:
\*   src/cpp_tutorial_9aeffd.cpp  - the process-tree printer (main, printProcessTree)
\*   src/ruby_guide_b966dd.rb     - the Router (registration methods, dispatch)
\* The two programs share nothing; each has its own specification
\* (TreeSpec / TreeFairSpec and RouterSpec) over the same variable tuple, and the
\* variables of the other program keep their initial value.
EXTENDS Integers, Sequences, FiniteSets, TLC

VARIABLES all_processes, root_id, pc, stack, out, err, exit_code, ncalls,
          routes, lastOp, request, response, invoked, latest, nregs

treeVars == <<all_processes, root_id, pc, stack, out, err, exit_code, ncalls>>
routerVars == <<routes, lastOp, request, response, invoked, latest, nregs>>
vars == <<all_processes, root_id, pc, stack, out, err, exit_code, ncalls,
          routes, lastOp, request, response, invoked, latest, nregs>>

\* ---------------------------------------------------------------------------
\* Bounds
\* ---------------------------------------------------------------------------
\* Largest process id (and parent id, and root id) of a snapshot.
MaxPid == 4
\* Largest number of records in a snapshot.
MaxRecords == 4
\* Largest number of route registrations in a run.
MaxRegs == 2

\* Capacity of the call stack in activations of printProcessTree: one more than
\* the MaxRecords + 1 activations the deepest acyclic snapshot needs; recursion
\* past the capacity ends the process.
StackLimit == MaxRecords + 2

\* ===========================================================================
\* Process-tree printer (src/cpp_tutorial_9aeffd.cpp)
\* ===========================================================================

\* struct ProcessInfo: pid and ppid.  The name is only copied to the output and
\* level is written once (0) and never read, so neither decides anything here.
ProcessInfo == [pid : 1..MaxPid, ppid : 0..MaxPid]

RECURSIVE SeqSum(_)
SeqSum(s) == IF s = <<>> THEN 0 ELSE Head(s) + SeqSum(Tail(s))

Reverse(s) == [i \in 1..Len(s) |-> s[Len(s) + 1 - i]]

RECURSIVE AscendingPids(_)
AscendingPids(S) ==
    IF S = {} THEN <<>>
    ELSE LET m == CHOOSE x \in S : \A y \in S : x <= y
         IN <<m>> \o AscendingPids(S \ {m})

\* readdir's order of the numeric directories of /proc is not specified; the
\* model draws the ascending and the descending order.
DirectoryOrders(S) == {AscendingPids(S), Reverse(AscendingPids(S))}

\* The snapshots getAllProcessInfo can return: one record per numeric directory
\* of /proc, so pids are pairwise distinct; an unreadable /proc gives none.
getAllProcessInfo ==
    UNION { UNION { { [i \in 1..Len(o) |-> [pid |-> o[i], ppid |-> f[o[i]]]]
                      : o \in DirectoryOrders(S) }
                    : f \in [S -> 0..MaxPid] }
            : S \in {T \in SUBSET (1..MaxPid) : Cardinality(T) <= MaxRecords} }

\* Lines 79-84: the records whose ppid is current_pid, in input order.
ChildrenSkipLast(procs, current_pid) ==
    LET c == SelectSeq(procs, LAMBDA proc : proc.ppid = current_pid)
    IN IF c = <<>> THEN c ELSE SubSeq(c, 1, Len(c) - 1)

ChildrenWithOrphans(procs, current_pid) ==
    SelectSeq(procs, LAMBDA proc :
        \/ proc.ppid = current_pid
        \/ /\ current_pid = 0
           /\ \A k \in 1..Len(procs) : procs[k].pid # proc.ppid)

Children(procs, current_pid) ==
    SelectSeq(procs, LAMBDA proc : proc.ppid = current_pid)

\* Lines 87-89: std::sort with the comparator a->pid < b->pid.
RECURSIVE InsertByPid(_, _)
InsertByPid(x, s) ==
    IF s = <<>> THEN <<x>>
    ELSE IF x.pid < Head(s).pid THEN <<x>> \o s
    ELSE <<Head(s)>> \o InsertByPid(x, Tail(s))

RECURSIVE InsertionSort(_)
InsertionSort(s) ==
    IF s = <<>> THEN <<>> ELSE InsertByPid(Head(s), InsertionSort(Tail(s)))

SortUnsorted(s) == s

SortByPid(s) == InsertionSort(s)

\* Lines 94-96: the indentation loop writes "  " level times.
IndentOneSpace(level) == SeqSum([i \in 1..level |-> 1])

Indent(level) == SeqSum([i \in 1..level |-> 2])

\* A fresh activation of printProcessTree(all_processes, current_pid, level):
\* its children vector is built and sorted before the print loop starts.
Frame(current_pid, level, id) ==
    [current_pid |-> current_pid, level |-> level,
     children |-> SortByPid(Children(all_processes, current_pid)),
     next |-> 1, id |-> id]

\* Line 98: "+-- name (PID: pid, PPID: ppid)" after the indentation; call is the
\* activation that printed the line.
ProcLine(child, level, id) ==
    [kind |-> "proc", indent |-> Indent(level), pid |-> child.pid,
     ppid |-> child.ppid, call |-> id]

\* Line 121.
RootLine == [kind |-> "Root (System) (PID: 0, PPID: 0)"]

\* Line 115: all_processes.empty().
EmptyNever(procs) == FALSE

IsEmpty(procs) == Len(procs) = 0

TreeInit ==
    /\ all_processes \in getAllProcessInfo
    /\ root_id = 0
    /\ pc = "start"
    /\ stack = <<>>
    /\ out = <<>>
    /\ err = <<>>
    /\ exit_code = -1
    /\ ncalls = 0
    /\ routes = <<>>
    /\ lastOp = "none"
    /\ request = <<>>
    /\ response = ""
    /\ invoked = "none"
    /\ latest = <<>>
    /\ nregs = 0

\* main, lines 112-118: an empty snapshot is reported on stderr and main returns 1.
MainEmpty ==
    /\ pc = "start"
    /\ IsEmpty(all_processes)
    /\ out' = <<[kind |-> "Gathering process information..."]>>
    /\ err' = <<"No process information retrieved.">>
    /\ exit_code' = 1
    /\ pc' = "exit"
    /\ UNCHANGED <<all_processes, root_id, stack, ncalls>>
    /\ UNCHANGED routerVars

\* main, lines 112-122: the root line, then printProcessTree(all_processes, 0, 0).
MainRender ==
    /\ pc = "start"
    /\ ~IsEmpty(all_processes)
    /\ out' = <<[kind |-> "Gathering process information..."],
                [kind |-> "Building and printing process tree..."],
                RootLine>>
    /\ root_id' = 0
    /\ stack' = <<Frame(0, 0, 1)>>
    /\ ncalls' = 1
    /\ pc' = "main"
    /\ UNCHANGED <<all_processes, err, exit_code>>
    /\ UNCHANGED routerVars

\* A direct call printProcessTree(all_processes, root, 0).
Render ==
    /\ pc = "start"
    /\ \E root \in 0..MaxPid :
        /\ root_id' = root
        /\ stack' = <<Frame(root, 0, 1)>>
    /\ ncalls' = 1
    /\ pc' = "call"
    /\ UNCHANGED <<all_processes, out, err, exit_code>>
    /\ UNCHANGED routerVars

Running == pc \in {"main", "call"}

Top == stack[Len(stack)]

\* Lines 92-101: print the next child and recurse into it.
VisitChild ==
    /\ Running
    /\ Top.next <= Len(Top.children)
    /\ Len(stack) < StackLimit
    /\ LET child == Top.children[Top.next]
       IN /\ out' = Append(out, ProcLine(child, Top.level, Top.id))
          /\ stack' = Append([stack EXCEPT ![Len(stack)].next = @ + 1],
                             Frame(child.pid, Top.level + 1, ncalls + 1))
    /\ ncalls' = ncalls + 1
    /\ UNCHANGED <<all_processes, root_id, pc, err, exit_code>>
    /\ UNCHANGED routerVars

\* Lines 92-101 when the call stack is full: the line is printed and the
\* recursive call overruns the stack, which ends the process.
StackOverflow ==
    /\ Running
    /\ Top.next <= Len(Top.children)
    /\ Len(stack) = StackLimit
    /\ out' = Append(out, ProcLine(Top.children[Top.next], Top.level, Top.id))
    /\ pc' = "stack_exhausted"
    /\ UNCHANGED <<all_processes, root_id, stack, err, exit_code, ncalls>>
    /\ UNCHANGED routerVars

\* Line 103: the loop is over and the activation returns; the return of the
\* outermost activation to main is followed by main's return 0 (line 124).
Return ==
    /\ Running
    /\ Top.next > Len(Top.children)
    /\ stack' = SubSeq(stack, 1, Len(stack) - 1)
    /\ IF Len(stack) = 1
       THEN /\ pc' = "done"
            /\ exit_code' = IF pc = "main" THEN 0 ELSE exit_code
       ELSE UNCHANGED <<pc, exit_code>>
    /\ UNCHANGED <<all_processes, root_id, out, err, ncalls>>
    /\ UNCHANGED routerVars

TreeNext == MainEmpty \/ MainRender \/ Render \/ VisitChild \/ StackOverflow \/ Return

TreeSpec == TreeInit /\ [][TreeNext]_vars

\* The program is sequential: a step that is enabled is taken.
TreeFairSpec == TreeSpec /\ WF_vars(TreeNext)

\* ---------------------------------------------------------------------------
\* Vocabulary of the properties of the process-tree printer
\* ---------------------------------------------------------------------------
Recs == {all_processes[i] : i \in 1..Len(all_processes)}

ChildPids(P) == {r.pid : r \in {x \in Recs : x.ppid \in P}}

RECURSIVE Closure(_)
Closure(S) ==
    LET n == S \cup ChildPids(S)
    IN IF n = S THEN S ELSE Closure(n)

\* The pids of the records reachable from id p through parent_pid links.
Desc(p) == Closure(ChildPids({p}))

\* No record is its own ancestor.
NoCycle == \A r \in Recs : r.pid \notin Desc(r.pid)

\* A record reachable from the root is its own ancestor.
CycleFromRoot == \E r \in Recs : r.pid \in Desc(root_id) /\ r.pid \in Desc(r.pid)

\* The process lines written so far, in order.
Lines == SelectSeq(out, LAMBDA l : l.kind = "proc")

Count(p) == Cardinality({i \in 1..Len(Lines) : Lines[i].pid = p})

RecordOf(p) == CHOOSE r \in Recs : r.pid = p

\* Number of parent links between the record with pid p and a child of the root.
RECURSIVE DepthBelowRoot(_)
DepthBelowRoot(p) ==
    IF RecordOf(p).ppid = root_id THEN 0 ELSE 1 + DepthBelowRoot(RecordOf(p).ppid)

Position(p) == CHOOSE i \in 1..Len(all_processes) : all_processes[i].pid = p

\* A record whose parent is neither a record of the collection nor the root id.
Orphan(r) == r.ppid # root_id /\ \A x \in Recs : x.pid # r.ppid

Finished == pc \in {"done", "exit"}

\* ---------------------------------------------------------------------------
\* C1: for a collection whose parent_pid links contain no cycle,
\* printProcessTree(records, root_id, 0) terminates, and when it has returned
\* every record reachable from root_id has been emitted exactly once.
\* ---------------------------------------------------------------------------
C1_AcyclicTerminatesVisitingOnce ==
    /\ [](NoCycle /\ pc = "done" => \A p \in Desc(root_id) : Count(p) = 1)
    /\ (NoCycle /\ Running) ~> (pc = "done")

C1_Witness ==
    /\ pc = "done"
    /\ NoCycle
    /\ Cardinality(Desc(root_id)) >= 3
    /\ \E i \in 1..Len(Lines) : Lines[i].indent >= 4
    /\ \E r \in Recs : r.pid \notin Desc(root_id)

\* ---------------------------------------------------------------------------
\* C2: with a parent_pid cycle reachable from the root, rendering does not
\* recurse without bound: it never holds more activations than one per record
\* plus the root's, never exhausts the call stack, and terminates reporting
\* CyclicParentage.
\* ---------------------------------------------------------------------------
C2_CycleIsDetected ==
    CycleFromRoot =>
        /\ Len(stack) <= Cardinality(Recs) + 1
        /\ pc # "stack_exhausted"
        /\ (Finished => "CyclicParentage" \in {err[i] : i \in 1..Len(err)})

\* ---------------------------------------------------------------------------
\* C3: within one activation of printProcessTree the lines are emitted in
\* strictly ascending pid order, and once rendering has returned the lines of
\* an activation are all the records whose ppid is that activation's pid.
\* ---------------------------------------------------------------------------
C3_ChildrenAscending ==
    /\ \A i, j \in 1..Len(Lines) :
           (i < j /\ Lines[i].call = Lines[j].call) => Lines[i].pid < Lines[j].pid
    /\ pc = "done" =>
           \A i \in 1..Len(Lines) :
               {Lines[j].pid : j \in {k \in 1..Len(Lines) : Lines[k].call = Lines[i].call}}
                   = ChildPids({Lines[i].ppid})

C3_Witness ==
    /\ pc = "done"
    /\ \E i, j \in 1..Len(Lines) :
           /\ i < j
           /\ Lines[i].call = Lines[j].call
           /\ Position(Lines[i].pid) > Position(Lines[j].pid)

\* ---------------------------------------------------------------------------
\* C4 (as claimed): an orphan and all of its descendants never appear in the
\* output, and rendering does not fail.
\* ---------------------------------------------------------------------------
C4_OrphanSubtreeNeverVisited ==
    \A r \in Recs :
        Orphan(r) =>
            /\ \A p \in {r.pid} \cup Desc(r.pid) : Count(p) = 0
            /\ pc # "stack_exhausted"

\* C4 (amended): an orphan never appears in the output; its descendants never
\* appear either unless the root id is the orphan's own pid or the pid of one
\* of its descendants; and rendering fails only on a cycle reachable from the
\* root, never on the orphan.
C4_OrphanNeverVisited ==
    /\ \A r \in Recs :
           Orphan(r) =>
               /\ Count(r.pid) = 0
               /\ root_id \notin ({r.pid} \cup Desc(r.pid)) =>
                      \A p \in Desc(r.pid) : Count(p) = 0
    /\ pc = "stack_exhausted" => CycleFromRoot

C4_Witness ==
    /\ pc = "done"
    /\ Len(Lines) >= 1
    /\ \E r \in Recs :
           /\ Orphan(r)
           /\ Desc(r.pid) # {}
           /\ root_id \notin ({r.pid} \cup Desc(r.pid))

\* ---------------------------------------------------------------------------
\* C5 (as claimed): rendering an empty collection with root id 0 produces
\* exactly the root line and is not an error.
\* ---------------------------------------------------------------------------
C5_EmptyRendersRootLine ==
    (all_processes = <<>> /\ root_id = 0 /\ Finished) =>
        /\ SelectSeq(out, LAMBDA l : l = RootLine \/ l.kind = "proc") = <<RootLine>>
        /\ exit_code # 1

\* C5 (amended): on an empty collection printProcessTree emits no line and
\* returns normally, and main prints no root line, reports the empty snapshot
\* on stderr and returns 1; the root line is printed by main for a non-empty
\* collection only.
C5_EmptySnapshotHasNoRootLine ==
    all_processes = <<>> =>
        /\ \A i \in 1..Len(out) : out[i] # RootLine /\ out[i].kind # "proc"
        /\ pc # "stack_exhausted"
        /\ pc = "exit" => exit_code = 1 /\ err # <<>>
        /\ pc = "done" => out = <<>> /\ err = <<>>
        /\ pc # "main"

C5_Witness == all_processes = <<>> /\ pc = "exit" /\ exit_code = 1

\* ---------------------------------------------------------------------------
\* C10: the records are emitted in depth-first pre-order, a record at depth d
\* below the root with 2*d leading spaces: when no cycle is reachable from the
\* root every line's indentation is twice its record's depth, once rendering
\* has returned each line is followed at once by exactly the lines of its
\* record's descendants, and records {1,0},{2,1},{3,1},{4,2} rendered from
\* root 0 come out as 1, 2, 4, 3 at depths 0, 1, 2, 1.
\* ---------------------------------------------------------------------------
ExampleRecords ==
    {[pid |-> 1, ppid |-> 0], [pid |-> 2, ppid |-> 1],
     [pid |-> 3, ppid |-> 1], [pid |-> 4, ppid |-> 2]}

C10_PreOrderIndented ==
    ~CycleFromRoot =>
        /\ \A i \in 1..Len(Lines) : Lines[i].indent = 2 * DepthBelowRoot(Lines[i].pid)
        /\ pc = "done" =>
               \A i \in 1..Len(Lines) :
                   LET k == Cardinality(Desc(Lines[i].pid))
                   IN /\ i + k <= Len(Lines)
                      /\ {Lines[j].pid : j \in (i + 1)..(i + k)} = Desc(Lines[i].pid)
        /\ (pc = "done" /\ Recs = ExampleRecords /\ root_id = 0) =>
               /\ [i \in 1..Len(Lines) |-> Lines[i].pid] = <<1, 2, 4, 3>>
               /\ [i \in 1..Len(Lines) |-> Lines[i].indent] = <<0, 2, 4, 2>>

C10_Witness ==
    /\ pc = "done"
    /\ Recs = ExampleRecords
    /\ root_id = 0
    /\ all_processes[1].pid = 4
    /\ Len(Lines) = 4

\* ===========================================================================
\* Router (src/ruby_guide_b966dd.rb)
\* ===========================================================================

\* Strings and symbols are sequences of one-character strings.
LowerLetters ==
    <<"a", "b", "c", "d", "e", "f", "g", "h", "i", "j", "k", "l", "m",
      "n", "o", "p", "q", "r", "s", "t", "u", "v", "w", "x", "y", "z">>

UpperLetters ==
    <<"A", "B", "C", "D", "E", "F", "G", "H", "I", "J", "K", "L", "M",
      "N", "O", "P", "Q", "R", "S", "T", "U", "V", "W", "X", "Y", "Z">>

\* Line 12: HTTP_METHODS = %i[get post put delete].
HTTP_METHODS ==
    {<<"g", "e", "t">>, <<"p", "o", "s", "t">>, <<"p", "u", "t">>,
     <<"d", "e", "l", "e", "t", "e">>}

\* The verbs a caller hands to dispatch: symbols and strings in any case, one
\* of them (:patch) not among HTTP_METHODS.
DispatchMethods ==
    {[symbol |-> TRUE, chars |-> <<"g", "e", "t">>],
     [symbol |-> FALSE, chars |-> <<"G", "E", "T">>],
     [symbol |-> FALSE, chars |-> <<"G", "e", "t">>],
     [symbol |-> TRUE, chars |-> <<"p", "o", "s", "t">>],
     [symbol |-> TRUE, chars |-> <<"p", "u", "t">>],
     [symbol |-> TRUE, chars |-> <<"p", "a", "t", "c", "h">>]}

\* Two paths that differ in the case of one letter only.
Paths == {<<"/", "a", "b", "o", "u", "t">>, <<"/", "A", "b", "o", "u", "t">>}

\* The blocks handed to a registration; Nil is a registration without a block.
Nil == "nil"

Blocks == {"A", "B", Nil}

\* What handler.call returns for each block (line 81).
BlockReturn(b) == IF b = "A" THEN "result of A" ELSE "result of B"

\* Line 85.
NotFound == "404 Not Found"

\* Symbol#to_s / String#to_s: the characters.
ToS(x) == x

\* String#upcase, lines 56-57 and 68.
UpcaseChar(c) ==
    IF \E i \in 1..Len(LowerLetters) : LowerLetters[i] = c
    THEN UpperLetters[CHOOSE i \in 1..Len(LowerLetters) : LowerLetters[i] = c]
    ELSE c

UpcaseNothing(str) == str

Upcase(str) == [i \in 1..Len(str) |-> UpcaseChar(str[i])]

\* Line 32: Hash.new { |hash, key| hash[key] = {} }.  Reading a missing key
\* stores an empty hash under it; the result is the table after the read.
HashNew == <<>>

RoutesRead(rs, key) == IF key \in DOMAIN rs THEN rs ELSE (key :> <<>>) @@ rs

\* Hash#[] of a plain hash: nil for a missing key.
HashGet(h, key) == IF key \in DOMAIN h THEN h[key] ELSE Nil

\* Hash#[]= of a plain hash.
HashStoreIfAbsent(h, key, value) == IF key \in DOMAIN h THEN h ELSE (key :> value) @@ h

HashStore(h, key, value) == (key :> value) @@ h

\* Line 75: handler = @routes[normalized_method][path], on the table after the
\* read of @routes[normalized_method].
HandlerAnyVerb(rs, normalized_method, path) ==
    IF \E k \in DOMAIN rs : HashGet(rs[k], path) # Nil
    THEN HashGet(rs[CHOOSE k \in DOMAIN rs : HashGet(rs[k], path) # Nil], path)
    ELSE Nil

Handler(rs, normalized_method, path) == HashGet(rs[normalized_method], path)

\* Line 77: nil is the only falsy handler.
Truthy(handler) == handler # Nil

RouterInit ==
    /\ all_processes = <<>>
    /\ root_id = 0
    /\ pc = "start"
    /\ stack = <<>>
    /\ out = <<>>
    /\ err = <<>>
    /\ exit_code = -1
    /\ ncalls = 0
    /\ routes = HashNew
    /\ lastOp = "none"
    /\ request = <<>>
    /\ response = ""
    /\ invoked = "none"
    /\ latest = <<>>
    /\ nregs = 0

\* Lines 45-59: router.get / post / put / delete (path, &block).  latest
\* records, per (method_name, path), the block of the most recent registration
\* and the block it replaced.
Register ==
    /\ nregs < MaxRegs
    /\ \E method_name \in HTTP_METHODS, path \in Paths, block \in Blocks :
        LET key == Upcase(ToS(method_name))
            rs == RoutesRead(routes, key)
            pair == <<method_name, path>>
        IN /\ routes' = [rs EXCEPT ![key] = HashStore(rs[key], path, block)]
           /\ request' = [http_method |-> [symbol |-> TRUE, chars |-> method_name],
                          path |-> path]
           /\ response' = block
           /\ latest' = (pair :> [block |-> block,
                                  replaced |-> IF pair \in DOMAIN latest
                                               THEN latest[pair].block ELSE "none"])
                        @@ latest
    /\ invoked' = "none"
    /\ lastOp' = "register"
    /\ nregs' = nregs + 1
    /\ UNCHANGED treeVars

\* Lines 65-87: dispatch(http_method, path).
Dispatch ==
    /\ \E http_method \in DispatchMethods, path \in Paths :
        LET normalized_method == Upcase(ToS(http_method.chars))
            rs == RoutesRead(routes, normalized_method)
            handler == Handler(rs, normalized_method, path)
        IN /\ routes' = rs
           /\ request' = [http_method |-> http_method, path |-> path]
           /\ IF Truthy(handler)
              THEN /\ invoked' = handler
                   /\ response' = BlockReturn(handler)
              ELSE /\ invoked' = "none"
                   /\ response' = NotFound
    /\ lastOp' = "dispatch"
    /\ UNCHANGED <<latest, nregs>>
    /\ UNCHANGED treeVars

RouterNext == Register \/ Dispatch

RouterSpec == RouterInit /\ [][RouterNext]_vars

\* ---------------------------------------------------------------------------
\* Vocabulary of the properties of the router
\* ---------------------------------------------------------------------------
SameLetter(c, d) ==
    \/ c = d
    \/ \E i \in 1..Len(LowerLetters) : {c, d} = {LowerLetters[i], UpperLetters[i]}

\* Equal up to the case of the letters.
EqIgnoringCase(a, b) ==
    /\ Len(a) = Len(b)
    /\ \A i \in 1..Len(a) : SameLetter(a[i], b[i])

Dispatched == lastOp = "dispatch"

\* The registered (method_name, path) pairs the dispatched request names, the
\* verb compared up to case and the path exactly.
Requested ==
    {pr \in DOMAIN latest :
        /\ EqIgnoringCase(pr[1], request.http_method.chars)
        /\ pr[2] = request.path}

\* ---------------------------------------------------------------------------
\* C6: dispatch(verb, path) invokes the action of the most recent registration
\* of that (verb, path) pair and returns its result; an action that a later
\* registration of the pair replaced is not invoked.
\* ---------------------------------------------------------------------------
C6_LastRegistrationWins ==
    Dispatched =>
        \A pr \in DOMAIN latest :
            (pr[1] = request.http_method.chars /\ pr[2] = request.path) =>
                IF latest[pr].block = Nil
                THEN invoked = "none"
                ELSE /\ invoked = latest[pr].block
                     /\ response = BlockReturn(latest[pr].block)

C6_Witness ==
    /\ Dispatched
    /\ invoked = "B"
    /\ \E pr \in DOMAIN latest :
           /\ pr[1] = request.http_method.chars
           /\ pr[2] = request.path
           /\ latest[pr].block = "B"
           /\ latest[pr].replaced = "A"

\* ---------------------------------------------------------------------------
\* C7: dispatch returns exactly "404 Not Found", invoking nothing, whenever no
\* action is registered for the requested verb and path: on an empty table, for
\* an unknown verb or one without routes, and for a path registered under
\* another verb only.
\* ---------------------------------------------------------------------------
C7_NotFoundWhenUnregistered ==
    (Dispatched /\ \A pr \in Requested : latest[pr].block = Nil) =>
        /\ response = "404 Not Found"
        /\ invoked = "none"

C7_Witness ==
    /\ Dispatched
    /\ response = "404 Not Found"
    /\ Requested = {}
    /\ \E pr \in DOMAIN latest :
           /\ pr[2] = request.path
           /\ latest[pr].block # Nil
           /\ ~EqIgnoringCase(pr[1], request.http_method.chars)

\* ---------------------------------------------------------------------------
\* C8: dispatch matches the verb up to case (a verb written in another case
\* than the registered method name selects that method's routes) and the path
\* exactly (a request whose path differs from a registered path in case only
\* is not found).
\* ---------------------------------------------------------------------------
C8_VerbFoldedPathExact ==
    Dispatched =>
        /\ \A pr \in Requested :
               (pr[1] # request.http_method.chars /\ latest[pr].block # Nil) =>
                   /\ invoked = latest[pr].block
                   /\ response = BlockReturn(latest[pr].block)
        /\ ( /\ Requested = {}
             /\ \E pr \in DOMAIN latest :
                    /\ EqIgnoringCase(pr[1], request.http_method.chars)
                    /\ EqIgnoringCase(pr[2], request.path)
                    /\ latest[pr].block # Nil )
           => (response = NotFound /\ invoked = "none")

C8_Witness ==
    /\ Dispatched
    /\ request.http_method.chars = <<"G", "e", "t">>
    /\ request.path = <<"/", "A", "b", "o", "u", "t">>
    /\ <<<<"g", "e", "t">>, <<"/", "a", "b", "o", "u", "t">>>> \in DOMAIN latest
    /\ latest[<<<<"g", "e", "t">>, <<"/", "a", "b", "o", "u", "t">>>>].block = "A"
    /\ Requested = {}
    /\ response = NotFound

\* ---------------------------------------------------------------------------
\* C9: every dispatch call leaves the route table unchanged: the set of verb
\* keys and each verb's path-to-action map are after the call what they were
\* before it.
\* ---------------------------------------------------------------------------
C9_DispatchLeavesTableUnchanged == [][lastOp' = "dispatch" => routes' = routes]_vars

====
